---------------------------- MODULE Spec2Model ----------------------------
(***************************************************************************)
(* A model of verifier.py: the formula parser, the three axiom-schema      *)
(* matchers, the per-line proof verifier and the runner of test files.     *)
(*                                                                         *)
(* Text is a sequence of one-character strings, so that slicing, trimming  *)
(* and scanning are computed character by character as the code does.      *)
(* A formula term is a tuple, told apart by its length as in the code:     *)
(*   <<v>>            a variable (the code: the bare string v)             *)
(*   <<"~", f>>       a negation                                           *)
(*   <<"->", l, r>>   an implication                                       *)
(***************************************************************************)
EXTENDS Integers, Sequences, FiniteSets, TLC

VARIABLES
    proof_content,    \* verify_proof: the lines the for loop has taken so far
    proven_formulas,  \* verify_proof: line number -> proven term
    verdict,          \* "Running", "Failed", "Succeeded", or "Raised" when
                      \* an exception left verify_proof
    failure,          \* the FAILED message: position, kind, line number; or
                      \* the exception that left verify_proof, kind its class
    formula_string,   \* parse: the text it is applied to
    parse_result,     \* parse: <<>> before the call, then what it returned or raised
    formula,          \* is_axiomN: the term it is applied to
    axiom_result,     \* is_axiomN: <<>> before the call, then the matcher and its result
    lines,            \* load_and_run_tests_from_file: the lines its for loop has taken so far
    current_proof_content,  \* the lines gathered for the current proof
    current_proof_name,     \* the name of the current proof
    calls,            \* the calls of verify_proof made so far, with what each printed
    batch_pc          \* "off", "open", "loop", "done", or "raised" when an
                      \* exception left load_and_run_tests_from_file

vars == <<proof_content, proven_formulas, verdict, failure,
          formula_string, parse_result, formula, axiom_result,
          lines, current_proof_content, current_proof_name, calls, batch_pc>>

verifier_vars == <<proof_content, proven_formulas, verdict, failure>>
parse_vars == <<formula_string, parse_result>>
axiom_vars == <<formula, axiom_result>>
batch_vars == <<lines, current_proof_content, current_proof_name, calls, batch_pc>>

---------------------------------------------------------------------------
(* Bounds of the model.                                                    *)

MaxDepth == 2

MaxTextLen == 3

MaxLines == 4

MaxDoc == 5

---------------------------------------------------------------------------
(* Characters and text.                                                    *)

Upper == {"A", "B", "C", "D", "E", "F", "G", "H", "I", "J", "K", "L", "M",
          "N", "O", "P", "Q", "R", "S", "T", "U", "V", "W", "X", "Y", "Z"}

\* The decimal digits of Unicode, which \d of a str pattern matches and int()
\* converts.  They come in runs of ten consecutive code points, 0 to 9; the
\* ASCII run is written "0" to "9", every other by its code point: "U+0661"
\* is the one character ARABIC-INDIC DIGIT ONE.
DigitRuns ==
    {<<"0", "1", "2", "3", "4", "5", "6", "7", "8", "9">>,
     <<"U+0660", "U+0661", "U+0662", "U+0663", "U+0664", "U+0665", "U+0666", "U+0667", "U+0668", "U+0669">>,
     <<"U+06F0", "U+06F1", "U+06F2", "U+06F3", "U+06F4", "U+06F5", "U+06F6", "U+06F7", "U+06F8", "U+06F9">>,
     <<"U+07C0", "U+07C1", "U+07C2", "U+07C3", "U+07C4", "U+07C5", "U+07C6", "U+07C7", "U+07C8", "U+07C9">>,
     <<"U+0966", "U+0967", "U+0968", "U+0969", "U+096A", "U+096B", "U+096C", "U+096D", "U+096E", "U+096F">>,
     <<"U+09E6", "U+09E7", "U+09E8", "U+09E9", "U+09EA", "U+09EB", "U+09EC", "U+09ED", "U+09EE", "U+09EF">>,
     <<"U+0A66", "U+0A67", "U+0A68", "U+0A69", "U+0A6A", "U+0A6B", "U+0A6C", "U+0A6D", "U+0A6E", "U+0A6F">>,
     <<"U+0AE6", "U+0AE7", "U+0AE8", "U+0AE9", "U+0AEA", "U+0AEB", "U+0AEC", "U+0AED", "U+0AEE", "U+0AEF">>,
     <<"U+0B66", "U+0B67", "U+0B68", "U+0B69", "U+0B6A", "U+0B6B", "U+0B6C", "U+0B6D", "U+0B6E", "U+0B6F">>,
     <<"U+0BE6", "U+0BE7", "U+0BE8", "U+0BE9", "U+0BEA", "U+0BEB", "U+0BEC", "U+0BED", "U+0BEE", "U+0BEF">>,
     <<"U+0C66", "U+0C67", "U+0C68", "U+0C69", "U+0C6A", "U+0C6B", "U+0C6C", "U+0C6D", "U+0C6E", "U+0C6F">>,
     <<"U+0CE6", "U+0CE7", "U+0CE8", "U+0CE9", "U+0CEA", "U+0CEB", "U+0CEC", "U+0CED", "U+0CEE", "U+0CEF">>,
     <<"U+0D66", "U+0D67", "U+0D68", "U+0D69", "U+0D6A", "U+0D6B", "U+0D6C", "U+0D6D", "U+0D6E", "U+0D6F">>,
     <<"U+0DE6", "U+0DE7", "U+0DE8", "U+0DE9", "U+0DEA", "U+0DEB", "U+0DEC", "U+0DED", "U+0DEE", "U+0DEF">>,
     <<"U+0E50", "U+0E51", "U+0E52", "U+0E53", "U+0E54", "U+0E55", "U+0E56", "U+0E57", "U+0E58", "U+0E59">>,
     <<"U+0ED0", "U+0ED1", "U+0ED2", "U+0ED3", "U+0ED4", "U+0ED5", "U+0ED6", "U+0ED7", "U+0ED8", "U+0ED9">>,
     <<"U+0F20", "U+0F21", "U+0F22", "U+0F23", "U+0F24", "U+0F25", "U+0F26", "U+0F27", "U+0F28", "U+0F29">>,
     <<"U+1040", "U+1041", "U+1042", "U+1043", "U+1044", "U+1045", "U+1046", "U+1047", "U+1048", "U+1049">>,
     <<"U+1090", "U+1091", "U+1092", "U+1093", "U+1094", "U+1095", "U+1096", "U+1097", "U+1098", "U+1099">>,
     <<"U+17E0", "U+17E1", "U+17E2", "U+17E3", "U+17E4", "U+17E5", "U+17E6", "U+17E7", "U+17E8", "U+17E9">>,
     <<"U+1810", "U+1811", "U+1812", "U+1813", "U+1814", "U+1815", "U+1816", "U+1817", "U+1818", "U+1819">>,
     <<"U+1946", "U+1947", "U+1948", "U+1949", "U+194A", "U+194B", "U+194C", "U+194D", "U+194E", "U+194F">>,
     <<"U+19D0", "U+19D1", "U+19D2", "U+19D3", "U+19D4", "U+19D5", "U+19D6", "U+19D7", "U+19D8", "U+19D9">>,
     <<"U+1A80", "U+1A81", "U+1A82", "U+1A83", "U+1A84", "U+1A85", "U+1A86", "U+1A87", "U+1A88", "U+1A89">>,
     <<"U+1A90", "U+1A91", "U+1A92", "U+1A93", "U+1A94", "U+1A95", "U+1A96", "U+1A97", "U+1A98", "U+1A99">>,
     <<"U+1B50", "U+1B51", "U+1B52", "U+1B53", "U+1B54", "U+1B55", "U+1B56", "U+1B57", "U+1B58", "U+1B59">>,
     <<"U+1BB0", "U+1BB1", "U+1BB2", "U+1BB3", "U+1BB4", "U+1BB5", "U+1BB6", "U+1BB7", "U+1BB8", "U+1BB9">>,
     <<"U+1C40", "U+1C41", "U+1C42", "U+1C43", "U+1C44", "U+1C45", "U+1C46", "U+1C47", "U+1C48", "U+1C49">>,
     <<"U+1C50", "U+1C51", "U+1C52", "U+1C53", "U+1C54", "U+1C55", "U+1C56", "U+1C57", "U+1C58", "U+1C59">>,
     <<"U+A620", "U+A621", "U+A622", "U+A623", "U+A624", "U+A625", "U+A626", "U+A627", "U+A628", "U+A629">>,
     <<"U+A8D0", "U+A8D1", "U+A8D2", "U+A8D3", "U+A8D4", "U+A8D5", "U+A8D6", "U+A8D7", "U+A8D8", "U+A8D9">>,
     <<"U+A900", "U+A901", "U+A902", "U+A903", "U+A904", "U+A905", "U+A906", "U+A907", "U+A908", "U+A909">>,
     <<"U+A9D0", "U+A9D1", "U+A9D2", "U+A9D3", "U+A9D4", "U+A9D5", "U+A9D6", "U+A9D7", "U+A9D8", "U+A9D9">>,
     <<"U+A9F0", "U+A9F1", "U+A9F2", "U+A9F3", "U+A9F4", "U+A9F5", "U+A9F6", "U+A9F7", "U+A9F8", "U+A9F9">>,
     <<"U+AA50", "U+AA51", "U+AA52", "U+AA53", "U+AA54", "U+AA55", "U+AA56", "U+AA57", "U+AA58", "U+AA59">>,
     <<"U+ABF0", "U+ABF1", "U+ABF2", "U+ABF3", "U+ABF4", "U+ABF5", "U+ABF6", "U+ABF7", "U+ABF8", "U+ABF9">>,
     <<"U+FF10", "U+FF11", "U+FF12", "U+FF13", "U+FF14", "U+FF15", "U+FF16", "U+FF17", "U+FF18", "U+FF19">>,
     <<"U+104A0", "U+104A1", "U+104A2", "U+104A3", "U+104A4", "U+104A5", "U+104A6", "U+104A7", "U+104A8", "U+104A9">>,
     <<"U+10D30", "U+10D31", "U+10D32", "U+10D33", "U+10D34", "U+10D35", "U+10D36", "U+10D37", "U+10D38", "U+10D39">>,
     <<"U+11066", "U+11067", "U+11068", "U+11069", "U+1106A", "U+1106B", "U+1106C", "U+1106D", "U+1106E", "U+1106F">>,
     <<"U+110F0", "U+110F1", "U+110F2", "U+110F3", "U+110F4", "U+110F5", "U+110F6", "U+110F7", "U+110F8", "U+110F9">>,
     <<"U+11136", "U+11137", "U+11138", "U+11139", "U+1113A", "U+1113B", "U+1113C", "U+1113D", "U+1113E", "U+1113F">>,
     <<"U+111D0", "U+111D1", "U+111D2", "U+111D3", "U+111D4", "U+111D5", "U+111D6", "U+111D7", "U+111D8", "U+111D9">>,
     <<"U+112F0", "U+112F1", "U+112F2", "U+112F3", "U+112F4", "U+112F5", "U+112F6", "U+112F7", "U+112F8", "U+112F9">>,
     <<"U+11450", "U+11451", "U+11452", "U+11453", "U+11454", "U+11455", "U+11456", "U+11457", "U+11458", "U+11459">>,
     <<"U+114D0", "U+114D1", "U+114D2", "U+114D3", "U+114D4", "U+114D5", "U+114D6", "U+114D7", "U+114D8", "U+114D9">>,
     <<"U+11650", "U+11651", "U+11652", "U+11653", "U+11654", "U+11655", "U+11656", "U+11657", "U+11658", "U+11659">>,
     <<"U+116C0", "U+116C1", "U+116C2", "U+116C3", "U+116C4", "U+116C5", "U+116C6", "U+116C7", "U+116C8", "U+116C9">>,
     <<"U+11730", "U+11731", "U+11732", "U+11733", "U+11734", "U+11735", "U+11736", "U+11737", "U+11738", "U+11739">>,
     <<"U+118E0", "U+118E1", "U+118E2", "U+118E3", "U+118E4", "U+118E5", "U+118E6", "U+118E7", "U+118E8", "U+118E9">>,
     <<"U+11950", "U+11951", "U+11952", "U+11953", "U+11954", "U+11955", "U+11956", "U+11957", "U+11958", "U+11959">>,
     <<"U+11C50", "U+11C51", "U+11C52", "U+11C53", "U+11C54", "U+11C55", "U+11C56", "U+11C57", "U+11C58", "U+11C59">>,
     <<"U+11D50", "U+11D51", "U+11D52", "U+11D53", "U+11D54", "U+11D55", "U+11D56", "U+11D57", "U+11D58", "U+11D59">>,
     <<"U+11DA0", "U+11DA1", "U+11DA2", "U+11DA3", "U+11DA4", "U+11DA5", "U+11DA6", "U+11DA7", "U+11DA8", "U+11DA9">>,
     <<"U+16A60", "U+16A61", "U+16A62", "U+16A63", "U+16A64", "U+16A65", "U+16A66", "U+16A67", "U+16A68", "U+16A69">>,
     <<"U+16AC0", "U+16AC1", "U+16AC2", "U+16AC3", "U+16AC4", "U+16AC5", "U+16AC6", "U+16AC7", "U+16AC8", "U+16AC9">>,
     <<"U+16B50", "U+16B51", "U+16B52", "U+16B53", "U+16B54", "U+16B55", "U+16B56", "U+16B57", "U+16B58", "U+16B59">>,
     <<"U+1D7CE", "U+1D7CF", "U+1D7D0", "U+1D7D1", "U+1D7D2", "U+1D7D3", "U+1D7D4", "U+1D7D5", "U+1D7D6", "U+1D7D7">>,
     <<"U+1D7D8", "U+1D7D9", "U+1D7DA", "U+1D7DB", "U+1D7DC", "U+1D7DD", "U+1D7DE", "U+1D7DF", "U+1D7E0", "U+1D7E1">>,
     <<"U+1D7E2", "U+1D7E3", "U+1D7E4", "U+1D7E5", "U+1D7E6", "U+1D7E7", "U+1D7E8", "U+1D7E9", "U+1D7EA", "U+1D7EB">>,
     <<"U+1D7EC", "U+1D7ED", "U+1D7EE", "U+1D7EF", "U+1D7F0", "U+1D7F1", "U+1D7F2", "U+1D7F3", "U+1D7F4", "U+1D7F5">>,
     <<"U+1D7F6", "U+1D7F7", "U+1D7F8", "U+1D7F9", "U+1D7FA", "U+1D7FB", "U+1D7FC", "U+1D7FD", "U+1D7FE", "U+1D7FF">>,
     <<"U+1E140", "U+1E141", "U+1E142", "U+1E143", "U+1E144", "U+1E145", "U+1E146", "U+1E147", "U+1E148", "U+1E149">>,
     <<"U+1E2F0", "U+1E2F1", "U+1E2F2", "U+1E2F3", "U+1E2F4", "U+1E2F5", "U+1E2F6", "U+1E2F7", "U+1E2F8", "U+1E2F9">>,
     <<"U+1E950", "U+1E951", "U+1E952", "U+1E953", "U+1E954", "U+1E955", "U+1E956", "U+1E957", "U+1E958", "U+1E959">>,
     <<"U+1FBF0", "U+1FBF1", "U+1FBF2", "U+1FBF3", "U+1FBF4", "U+1FBF5", "U+1FBF6", "U+1FBF7", "U+1FBF8", "U+1FBF9">>}

Digits == UNION {{run[k] : k \in 1..10} : run \in DigitRuns}

\* What str.strip() and \s of a str pattern take: the characters for which
\* str.isspace() holds.  Those TLA+ has no escape for are written by their
\* code point.
Whitespace ==
    {"\t", "\n", "U+000B", "\f", "\r", "U+001C", "U+001D", "U+001E",
     "U+001F", " ", "U+0085", "U+00A0", "U+1680", "U+2000", "U+2001",
     "U+2002", "U+2003", "U+2004", "U+2005", "U+2006", "U+2007", "U+2008",
     "U+2009", "U+200A", "U+2028", "U+2029", "U+202F", "U+205F", "U+3000"}

\* s[a:b] of the code: 0-based, half-open, clamped to the text.
Slice(s, a, b) ==
    LET lo == IF a < 0 THEN 0 ELSE a
        hi == IF b > Len(s) THEN Len(s) ELSE b
    IN  IF lo >= hi THEN <<>> ELSE SubSeq(s, lo + 1, hi)

RECURSIVE LStrip(_)
LStrip(s) ==
    IF s # <<>> /\ Head(s) \in Whitespace THEN LStrip(Tail(s)) ELSE s

RECURSIVE RStrip(_)
RStrip(s) ==
    IF s # <<>> /\ s[Len(s)] \in Whitespace
    THEN RStrip(SubSeq(s, 1, Len(s) - 1))
    ELSE s

\* str.strip()
Strip(s) == RStrip(LStrip(s))

\* str.startswith / str.endswith with a one-character argument
StartsWith(s, c) == s # <<>> /\ s[1] = c
EndsWith(s, c) == s # <<>> /\ s[Len(s)] = c

---------------------------------------------------------------------------
(* Part 1: formula helpers.                                                *)

Var(v) == <<v>>
Neg(f) == <<"~", f>>
Imp(l, r) == <<"->", l, r>>

\* re.match(r"^[A-Z]$", s): one letter A-Z, then the end of the text or a
\* newline that ends the text, before which `$` also matches.
is_variable_text(s) ==
    /\ Len(s) \in {1, 2}
    /\ s[1] \in Upper
    /\ Len(s) = 2 => s[2] = "\n"

\* On terms.  The variable is the bare text, so the test is the one on text;
\* the terms parse returns hold trimmed text, one letter.
is_variable(f) == is_variable_text(f)
is_negation(f) == Len(f) = 2 /\ f[1] = "~"
is_implication(f) == Len(f) = 3 /\ f[1] = "->"

---------------------------------------------------------------------------
(* Part 2: the parser.  parse returns a record: ok says whether a term was *)
(* returned (term) or an exception was raised (exception names its class,  *)
(* error its message).                                                     *)

Returned(t) == [ok |-> TRUE, term |-> t, exception |-> "", error |-> ""]
ParserError(msg) ==
    [ok |-> FALSE, term |-> <<>>, exception |-> "ParserError", error |-> msg]

\* What the interpreter raises when a call would make the stack deeper than
\* its recursion limit.  It is not a ParserError.
RecursionError ==
    [ok |-> FALSE, term |-> <<>>, exception |-> "RecursionError",
     error |-> "maximum recursion depth exceeded"]

\* sys.getrecursionlimit() of the interpreter, which the program never sets.
RecursionLimit == 1000

\* The frames under the first call of parse when the program is run: the
\* module, load_and_run_tests_from_file and verify_proof.
FramesAbove == 3

\* The deepest a call of parse goes before it calls itself: is_variable,
\* re.match, re._compile and the two levels of its isinstance test.
FramesBelow == 5

\* The deepest nesting of calls of parse that still returns.
MaxParseDepth == RecursionLimit - FramesAbove - FramesBelow

\* The for loop of parse over formula_string[1:-1], from interior index i
\* with the balance so far.  split_index is -1 when the loop ends without a
\* split; raised is TRUE when it raised the mismatched-parenthesis error.
RECURSIVE ScanSplit(_, _, _)
ScanSplit(s, i, balance) ==
    IF i >= Len(s) - 2
    THEN [raised |-> FALSE, split_index |-> -1]
    ELSE LET char == s[i + 2]
         IN  IF char = "("
             THEN ScanSplit(s, i + 1, balance + 1)
             ELSE IF char = ")"
             THEN IF balance - 1 < 0
                  THEN [raised |-> TRUE, split_index |-> -1]
                  ELSE ScanSplit(s, i + 1, balance - 1)
             ELSE IF char = "-" /\ i + 2 < Len(s) /\ s[i + 3] = ">"
                     /\ balance = 0
             THEN [raised |-> FALSE, split_index |-> i + 1]
             ELSE ScanSplit(s, i + 1, balance)

\* right_str = formula_string[split_index + 3:-1]
RightOffset == 3

\* The call of parse that is the depth-th on the stack.  The call that
\* would be too deep raises at its line 24, before it looks at the text;
\* an exception raised by an inner call leaves every outer call unchanged.
RECURSIVE parse_at(_, _)
parse_at(text, depth) ==
    LET s == Strip(text)
    IN  IF depth > MaxParseDepth
        THEN RecursionError
        ELSE IF is_variable_text(s)
        THEN Returned(Var(s[1]))
        ELSE IF StartsWith(s, "~")
        THEN LET inner == parse_at(Slice(s, 1, Len(s)), depth + 1)
             IN  IF inner.ok THEN Returned(Neg(inner.term)) ELSE inner
        ELSE IF StartsWith(s, "(") /\ EndsWith(s, ")")
        THEN LET scan == ScanSplit(s, 0, 0)
                 split_index == scan.split_index
                 left_str == Slice(s, 1, split_index)
                 right_str == Slice(s, split_index + RightOffset, Len(s) - 1)
             IN  IF scan.raised
                 THEN ParserError("Mismatched closing parenthesis")
                 ELSE IF split_index # -1 /\ left_str # <<>> /\ right_str # <<>>
                 THEN LET l == parse_at(left_str, depth + 1)
                      IN  IF ~l.ok THEN l
                          ELSE LET r == parse_at(right_str, depth + 1)
                               IN  IF ~r.ok THEN r
                                   ELSE Returned(Imp(l.term, r.term))
                 ELSE ParserError("Malformed implication or unbalanced parentheses")
        ELSE ParserError("Invalid formula syntax")

parse(text) == parse_at(text, 1)

---------------------------------------------------------------------------
(* Part 3: the axiom checkers.  Conjunction is evaluated left to right, as *)
(* the code's `and`, so a field is read only after its shape is checked.   *)

\* is_axiom1 without the comparison of the two A occurrences.
Axiom1ShapeOnly(f) == is_implication(f) /\ is_implication(f[3])

is_axiom1(f) ==
    IF ~(is_implication(f) /\ is_implication(f[3])) THEN FALSE
    ELSE LET A == f[2]
             A_prime == f[3][3]
         IN  A = A_prime

\* is_axiom2 comparing only the C of the last implication, not its A.
Axiom2IgnoresConsequentA(f) ==
    IF ~(is_implication(f) /\ is_implication(f[2]) /\ is_implication(f[2][3])
         /\ is_implication(f[3]) /\ is_implication(f[3][2])
         /\ is_implication(f[3][3])) THEN FALSE
    ELSE LET A == f[2][2]
             B == f[2][3][2]
             C == f[2][3][3]
         IN  f[3][2] = Imp(A, B) /\ f[3][3][3] = C

is_axiom2(f) ==
    IF ~(is_implication(f) /\ is_implication(f[2]) /\ is_implication(f[2][3])
         /\ is_implication(f[3]) /\ is_implication(f[3][2])
         /\ is_implication(f[3][3])) THEN FALSE
    ELSE LET A == f[2][2]
             B == f[2][3][2]
             C == f[2][3][3]
         IN  f[3][2] = Imp(A, B) /\ f[3][3] = Imp(A, C)

\* is_axiom3 with the two negations compared in the order of A and B.
Axiom3NotContraposed(f) ==
    IF ~(is_implication(f) /\ is_implication(f[2]) /\ is_negation(f[2][2])
         /\ is_negation(f[2][3]) /\ is_implication(f[3])) THEN FALSE
    ELSE LET A == f[3][2]
             B == f[3][3]
         IN  f[2] = Imp(Neg(A), Neg(B))

is_axiom3(f) ==
    IF ~(is_implication(f) /\ is_implication(f[2]) /\ is_negation(f[2][2])
         /\ is_negation(f[2][3]) /\ is_implication(f[3])) THEN FALSE
    ELSE LET A == f[3][2]
             B == f[3][3]
         IN  f[2] = Imp(Neg(B), Neg(A))

---------------------------------------------------------------------------
(* Part 4: the verifier.  First the two regular expressions of the loop    *)
(* body, computed on the trimmed line text.  The patterns are compiled     *)
(* without flags: `.` is any character but the newline, and `$` is the end *)
(* of the text or the place before a newline that ends it.                 *)

\* The value of a digit: its place in its run of ten.
DigitValue == [c \in Digits |->
    LET run == CHOOSE r \in DigitRuns : \E k \in 1..10 : r[k] = c
    IN  (CHOOSE k \in 1..10 : run[k] = c) - 1]

\* sys.get_int_max_str_digits() of the interpreter, which the program never
\* sets: int() raises ValueError on a text of more digits.
MaxStrDigits == 4300

\* int(s) raises ValueError, for a text of digits.
int_raises(s) == Len(s) > MaxStrDigits

\* int(s) for a text of digits on which it returns
RECURSIVE ToInt(_)
ToInt(s) ==
    IF s = <<>> THEN 0
    ELSE 10 * ToInt(SubSeq(s, 1, Len(s) - 1)) + DigitValue[s[Len(s)]]

\* How many digits the text starts with: what the greedy \d+ takes.
DigitRun(s) ==
    LET others == {k \in 1..Len(s) : s[k] \notin Digits}
    IN  IF others = {} THEN Len(s)
        ELSE (CHOOSE k \in others : \A q \in others : k <= q) - 1

AllDigits(s) == s # <<>> /\ \A k \in 1..Len(s) : s[k] \in Digits

\* The index (1-based) of the first c in s, 0 when there is none.
IndexOf(s, c) ==
    LET at == {k \in 1..Len(s) : s[k] = c}
    IN  IF at = {} THEN 0 ELSE CHOOSE k \in at : \A q \in at : k <= q

NoMatch == [matched |-> FALSE, line_num_str |-> <<>>, rest_of_line |-> <<>>]

\* What (.+) takes of the text it begins on: up to the first newline.
to_newline(from, newline) ==
    IF newline = 0 THEN from ELSE Slice(from, 0, newline - 1)

\* \s*(.+) on the text after the dot, of which the first `spaces` characters
\* are whitespace: \s* takes them and gives back as many as (.+) needs to
\* begin on a character that is not a newline.  <<>> when it cannot.
rest_after(after, spaces) ==
    LET begins == {p \in 0..spaces : p < Len(after) /\ after[p + 1] # "\n"}
    IN  IF begins = {} THEN <<>>
        ELSE LET from == Slice(after,
                               CHOOSE p \in begins : \A q \in begins : q <= p,
                               Len(after))
             IN  to_newline(from, IndexOf(from, "\n"))

\* The match, given the two groups.
line_groups(line_num_str, rest) ==
    IF rest = <<>> THEN NoMatch
    ELSE [matched |-> TRUE, line_num_str |-> line_num_str,
          rest_of_line |-> rest]

\* (\d+)\. and what follows, on text that begins with k digits.
number_dot(t, k) ==
    IF k >= 1 /\ k < Len(t) /\ t[k + 1] = "."
    THEN line_groups(Slice(t, 0, k),
                     rest_after(Slice(t, k + 1, Len(t)),
                                Len(Slice(t, k + 1, Len(t)))
                                    - Len(LStrip(Slice(t, k + 1, Len(t))))))
    ELSE NoMatch

\* re.match(r"^\s*(\d+)\.\s*(.+)", line_text): matched, and the two groups.
line_num_match(line_text) ==
    number_dot(LStrip(line_text), DigitRun(LStrip(line_text)))

Premise == <<"P", "r", "e", "m", "i", "s", "e">>
AX1 == <<"A", "X", "1">>
AX2 == <<"A", "X", "2">>
AX3 == <<"A", "X", "3">>

\* t is MP\s*\d+,\d+ from its first to its last character.
IsMP(t) ==
    /\ Len(t) >= 5
    /\ t[1] = "M"
    /\ t[2] = "P"
    /\ LET u == LStrip(Slice(t, 2, Len(t)))
           c == IndexOf(u, ",")
       IN  /\ c > 0
           /\ AllDigits(Slice(u, 0, c - 1))
           /\ AllDigits(Slice(u, c, Len(u)))

\* the alternation (Premise|AX[123]|MP\s*\d+,\d+)
IsJustification(t) == t \in {Premise, AX1, AX2, AX3} \/ IsMP(t)

\* re.search(r"\s+(Premise|AX[123]|MP\s*\d+,\d+)$", rest_of_line): the
\* leftmost offset (0-based) from which whitespace and then a justification
\* run to the end of the text; -1 when there is none.
justification_match(rest_of_line) ==
    LET starts == {p \in 0..(Len(rest_of_line) - 1) :
                      /\ rest_of_line[p + 1] \in Whitespace
                      /\ IsJustification(
                            LStrip(Slice(rest_of_line, p, Len(rest_of_line))))}
    IN  IF starts = {} THEN -1
        ELSE CHOOSE p \in starts : \A q \in starts : p <= q

\* re.match(r"MP\s*(\d+),(\d+)", justification).groups()
mp_groups(justification) ==
    LET u == LStrip(Slice(justification, 2, Len(justification)))
        c == IndexOf(u, ",")
    IN  <<Slice(u, 0, c - 1), Slice(u, c, Len(u))>>

\* i, j = map(int, mp_match.groups()) raises ValueError
mp_raises(justification) ==
    \E g \in {mp_groups(justification)[1], mp_groups(justification)[2]} :
        int_raises(g)

\* i, j = map(int, mp_match.groups()), when it returns
mp_match(justification) ==
    LET groups == mp_groups(justification)
    IN  [i |-> ToInt(groups[1]), j |-> ToInt(groups[2])]

\* The dict: `k in proven_formulas` and the assignment to proven_formulas[k].
HasKey(proven, k) == k \in DOMAIN proven

Record(proven, line_num, current_formula) ==
    [k \in DOMAIN proven \cup {line_num} |->
        IF k = line_num THEN current_formula ELSE proven[k]]

\* The Modus Ponens branch without the check of line 111.
ModusPonensCitesAnyKey(i, j, line_num, proven, current_formula) ==
    IF ~HasKey(proven, i) \/ ~HasKey(proven, j)
    THEN [is_valid |-> FALSE, error_detail |-> "MP refers to non-existent lines"]
    ELSE LET f_i == proven[i]
             f_j == proven[j]
         IN  IF \/ (is_implication(f_j) /\ f_j[2] = f_i /\ f_j[3] = current_formula)
                \/ (is_implication(f_i) /\ f_i[2] = f_j /\ f_i[3] = current_formula)
             THEN [is_valid |-> TRUE, error_detail |-> ""]
             ELSE [is_valid |-> FALSE,
                   error_detail |-> "Conclusion does not follow by Modus Ponens"]

\* Lines 111-118: the Modus Ponens branch.
modus_ponens(i, j, line_num, proven, current_formula) ==
    IF i >= line_num \/ j >= line_num
    THEN [is_valid |-> FALSE, error_detail |-> "MP refers to future lines"]
    ELSE IF ~HasKey(proven, i) \/ ~HasKey(proven, j)
    THEN [is_valid |-> FALSE, error_detail |-> "MP refers to non-existent lines"]
    ELSE LET f_i == proven[i]
             f_j == proven[j]
         IN  IF \/ (is_implication(f_j) /\ f_j[2] = f_i /\ f_j[3] = current_formula)
                \/ (is_implication(f_i) /\ f_i[2] = f_j /\ f_i[3] = current_formula)
             THEN [is_valid |-> TRUE, error_detail |-> ""]
             ELSE [is_valid |-> FALSE,
                   error_detail |-> "Conclusion does not follow by Modus Ponens"]

\* Lines 97-118: the dispatch on the justification.
check_justification(justification, line_num, proven, current_formula) ==
    IF justification = Premise
    THEN [is_valid |-> TRUE, error_detail |-> ""]
    ELSE IF justification = AX1
    THEN IF is_axiom1(current_formula)
         THEN [is_valid |-> TRUE, error_detail |-> ""]
         ELSE [is_valid |-> FALSE,
               error_detail |-> "Formula does not match AX1 schema."]
    ELSE IF justification = AX2
    THEN IF is_axiom2(current_formula)
         THEN [is_valid |-> TRUE, error_detail |-> ""]
         ELSE [is_valid |-> FALSE,
               error_detail |-> "Formula does not match AX2 schema."]
    ELSE IF justification = AX3
    THEN IF is_axiom3(current_formula)
         THEN [is_valid |-> TRUE, error_detail |-> ""]
         ELSE [is_valid |-> FALSE,
               error_detail |-> "Formula does not match AX3 schema."]
    ELSE IF Len(justification) >= 2 /\ justification[1] = "M"
            /\ justification[2] = "P"
    THEN LET m == mp_match(justification)
         IN  modus_ponens(m.i, m.j, line_num, proven, current_formula)
    ELSE [is_valid |-> FALSE, error_detail |-> ""]

\* What an iteration that passes over its line makes of it.
NoLine ==
    [outcome |-> "skip", line_num |-> -1, justification |-> <<>>,
     term |-> <<>>, detail |-> ""]

\* A reading that swallows the parser's error and passes over the line.
ReadParsedSkipsUnparsed(line_num, justification, parsed) ==
    IF parsed.exception = "RecursionError"
    THEN [NoLine EXCEPT !.outcome = "RecursionError", !.line_num = line_num]
    ELSE IF ~parsed.ok
    THEN NoLine
    ELSE [outcome |-> "parsed", line_num |-> line_num,
          justification |-> justification, term |-> parsed.term,
          detail |-> ""]

\* Lines 92-95, given what parse(formula_str) returned or raised.  The
\* RecursionError of parse is not caught by `except ParserError` and leaves
\* verify_proof.
read_parsed(line_num, justification, parsed) ==
    IF parsed.exception = "RecursionError"
    THEN [NoLine EXCEPT !.outcome = "RecursionError", !.line_num = line_num]
    ELSE IF ~parsed.ok
    THEN [NoLine EXCEPT !.outcome = "Syntax Error", !.line_num = line_num,
                        !.detail = parsed.error]
    ELSE [outcome |-> "parsed", line_num |-> line_num,
          justification |-> justification, term |-> parsed.term,
          detail |-> ""]

\* Lines 84-93, given where the justification was found (-1: nowhere).
read_justified(line_num, rest_of_line, start) ==
    IF start = -1
    THEN [NoLine EXCEPT !.outcome = "Malformed justification",
                        !.line_num = line_num]
    ELSE read_parsed(line_num,
                     Strip(Slice(rest_of_line, start, Len(rest_of_line))),
                     parse(Strip(Slice(rest_of_line, 0, start))))

\* Lines 78-84, given the match of the line pattern.  The ValueError of
\* int() at line 82, which is in no try, leaves verify_proof.
read_numbered(lm) ==
    IF ~lm.matched
    THEN [NoLine EXCEPT !.outcome = "Invalid line format"]
    ELSE IF int_raises(lm.line_num_str)
    THEN [NoLine EXCEPT !.outcome = "ValueError"]
    ELSE read_justified(ToInt(lm.line_num_str), lm.rest_of_line,
                        justification_match(lm.rest_of_line))

\* A reading that does not pass over comment lines.
ReadStrippedKeepsComments(line_text) ==
    IF line_text = <<>> THEN NoLine
    ELSE read_numbered(line_num_match(line_text))

\* Lines 75-77, given the trimmed line.
read_stripped(line_text) ==
    IF line_text = <<>> \/ StartsWith(line_text, "#") THEN NoLine
    ELSE read_numbered(line_num_match(line_text))

\* Lines 74-95: what one iteration makes of the line text before it looks
\* at the mapping.  outcome is "skip", "parsed", the FAILED message the
\* iteration prints before it returns, or the class of the exception that
\* leaves verify_proof.
read_line(raw_line) == read_stripped(Strip(raw_line))

\* Lines 97-123: the rest of the iteration, given the mapping so far.
\* outcome becomes "accept", "Invalid Justification", or "ValueError" when
\* int() raises on a cited number at line 111, which is in no try.
judge_line(rd, proven) ==
    IF rd.outcome # "parsed" THEN rd
    ELSE IF /\ Len(rd.justification) >= 2
            /\ rd.justification[1] = "M"
            /\ rd.justification[2] = "P"
            /\ mp_raises(rd.justification)
    THEN [rd EXCEPT !.outcome = "ValueError"]
    ELSE LET j == check_justification(rd.justification, rd.line_num, proven,
                                      rd.term)
         IN  IF j.is_valid
             THEN [rd EXCEPT !.outcome = "accept"]
             ELSE [rd EXCEPT !.outcome = "Invalid Justification",
                             !.detail = j.error_detail]

\* The exceptions that leave verify_proof.
Exceptions == {"ValueError", "RecursionError"}

\* Lines 74-123: one iteration of the for loop on one line.
loop_body(raw_line, proven) == judge_line(read_line(raw_line), proven)

---------------------------------------------------------------------------
(* The inputs the pure functions are applied to.                           *)

Vars == {"A", "B"}

RECURSIVE TermsUpTo(_)
TermsUpTo(d) ==
    IF d = 0 THEN {Var(v) : v \in Vars}
    ELSE LET S == TermsUpTo(d - 1)
         IN  S \cup {Neg(f) : f \in S} \cup {Imp(l, r) : l, r \in S}

\* The text of a term, implications written with the given arrow text.
RECURSIVE Render(_, _)
Render(t, arrow) ==
    IF is_variable(t) THEN <<t[1]>>
    ELSE IF is_negation(t) THEN <<"~">> \o Render(t[2], arrow)
    ELSE <<"(">> \o Render(t[2], arrow) \o arrow \o Render(t[3], arrow)
         \o <<")">>

Tight == <<"-", ">">>
Spaced == <<" ", "-", ">", " ">>
Arrows == {Tight, Spaced, <<"-", ">", " ">>, <<" ", "-", ">">>}

Alphabet == {"A", "B", "(", ")", "-", ">", "~", " ", "\t", "\n", "x"}

ShortTexts == UNION {[1..n -> Alphabet] : n \in 0..MaxTextLen}

RenderedTexts == {Render(t, a) : t \in TermsUpTo(MaxDepth), a \in Arrows}

\* One character inserted into, or deleted from, a grammar text.
EditedTexts ==
    LET base == {Render(t, Tight) : t \in TermsUpTo(MaxDepth - 1)}
    IN  {Slice(s, 0, p) \o <<c>> \o Slice(s, p, Len(s)) :
            s \in base, p \in 0..6, c \in Alphabet}
        \cup {Slice(s, 0, p) \o Slice(s, p + 1, Len(s)) : s \in base, p \in 0..6}
        \cup {<<" ">> \o s \o <<" ">> : s \in base}

\* Two grammar texts joined by an arrow with one space on each side.
JoinedTexts ==
    {<<"(">> \o Render(l, Tight) \o Spaced \o Render(r, Tight) \o <<")">> :
        l, r \in TermsUpTo(MaxDepth - 1)}

ParseInputs == ShortTexts \cup RenderedTexts \cup EditedTexts \cup JoinedTexts

\* Terms laid out as the three schemas are, every position filled freely.
Meta == TermsUpTo(0) \cup {Neg(Var("A")), Imp(Var("A"), Var("B"))}

Skeleton2 ==
    {Imp(Imp(a, Imp(b, c)), Imp(Imp(d, e), Imp(g, h))) :
        a \in Meta, b \in Meta, c \in Meta, d \in Meta, e \in Meta,
        g \in TermsUpTo(0), h \in TermsUpTo(0)}

Skeleton3 ==
    {Imp(Imp(w, x), Imp(y, z)) :
        w \in TermsUpTo(1), x \in TermsUpTo(1), y \in Meta, z \in Meta}

AxiomInputs == TermsUpTo(MaxDepth) \cup Skeleton2 \cup Skeleton3

---------------------------------------------------------------------------
(* The lines proofs are made of.                                           *)

DigitChar == <<"0", "1", "2", "3", "4", "5", "6", "7", "8", "9">>

\* The decimal text of n, 0 <= n <= 99.
Num(n) == IF n < 10 THEN <<DigitChar[n + 1]>>
          ELSE <<DigitChar[(n \div 10) + 1], DigitChar[(n % 10) + 1]>>

MP(i, j) == <<"M", "P", " ">> \o Num(i) \o <<",">> \o Num(j)

\* "<n>. <formula text> <justification>"
Line(n, formula_text, justification) ==
    Num(n) \o <<".", " ">> \o formula_text \o <<" ">> \o justification

vA == Var("A")
vB == Var("B")
vC == Var("C")

\* (A -> (B -> A)), (A -> B), (B -> A), ((~B -> ~A) -> (A -> B)) as terms
tK == Imp(vA, Imp(vB, vA))
tAB == Imp(vA, vB)
tBA == Imp(vB, vA)
tContra == Imp(Imp(Neg(vB), Neg(vA)), Imp(vA, vB))
tS == Imp(Imp(vA, Imp(vB, vC)), Imp(Imp(vA, vB), Imp(vA, vC)))

Blank == <<" ">>
Comment == <<"#", " ", "x">>

SkippedLines == {Blank, Comment}

FormatLines ==
    {<<"A", " ">> \o Premise,
     Line(1, <<"A">>, <<"C", "l", "a", "i", "m", "s", "T", "r", "u", "t", "h">>),
     Line(2, <<"(", "A">>, <<"F", "o", "o">>),
     <<"1", ".">>,
     <<"1", ".", " ", "A", "\n">> \o Premise}

PremiseLines ==
    {Line(1, <<"A">>, Premise),
     <<"U+0661", ".", "\t", "B", "\r">> \o Premise,
     Line(2, Render(tAB, Spaced), Premise),
     Line(3, Render(tAB, Spaced), Premise), Line(0, <<"A">>, Premise)}

AxiomLines ==
    {Line(2, Render(tK, Spaced), AX1), Line(2, Render(tK, Tight), AX1),
     Line(2, Render(tAB, Spaced), AX1), Line(2, Render(tK, Spaced), AX2),
     Line(2, Render(tAB, Tight), Premise),
     Line(1, Render(tContra, Spaced), AX3), Line(2, Render(tS, Spaced), AX2)}

ModusPonensLines ==
    {Line(3, <<"B">>, MP(1, 2)), Line(3, <<"B">>, MP(2, 1)),
     Line(3, Render(tBA, Spaced), MP(1, 2)), Line(3, Render(tBA, Spaced), MP(2, 1)),
     Line(3, Render(tBA, Tight), MP(1, 2)),
     Line(2, <<"B">>, MP(2, 3)), Line(2, <<"B">>, MP(3, 1)),
     Line(3, <<"A">>, MP(1, 1))}

\* A number of one digit more than int() converts: zeros, then n.
LongNum(n) == [k \in 1..MaxStrDigits |-> "0"] \o Num(n)

\* Lines on which int() raises: at line 82 on the line's own number, at
\* line 111 on a cited number, the second or the first.
LongNumberLines ==
    {LongNum(1) \o <<".", " ", "A", " ", "F", "o", "o">>,
     <<"3", ".", " ", "B", " ", "M", "P", " ", "1", ",">> \o LongNum(2),
     <<"2", ".", " ", "B", " ", "M", "P", " ">> \o LongNum(3) \o <<",", "1">>}

LinePool == SkippedLines \cup FormatLines \cup PremiseLines \cup AxiomLines
            \cup ModusPonensLines \cup LongNumberLines

\* The lines of test files: what readlines() returns keeps each line's
\* newline.  Two delimiter lines, one closed with '---' and one not, and the
\* lines of proofs between them: two premises, a Modus Ponens line citing
\* them, an empty line, a delimiter pushed right by a space, which
\* startswith does not take for a delimiter, and a line with a number on
\* which int() raises.
DELIMITER == <<"-", "-", "-", " ", "T", "E", "S", "T", ":">>

DelimiterP == DELIMITER \o <<" ", "P", " ", "-", "-", "-", "\n">>

DelimiterQ == DELIMITER \o <<" ", "Q", "\n">>

DelimiterLines == {DelimiterP, DelimiterQ}

ContentLines ==
    {Line(1, <<"A">>, Premise) \o <<"\n">>,
     Line(2, Render(tAB, Spaced), Premise) \o <<"\n">>,
     Line(3, <<"B">>, MP(1, 2)) \o <<"\n">>,
     <<"\n">>,
     <<" ">> \o DelimiterP,
     LongNum(1) \o <<".", " ", "A", " ">> \o Premise \o <<"\n">>}

\* read_line of every line of the pools: it does not depend on the state.
ReadLine == [line_text \in LinePool \cup ContentLines |-> read_line(line_text)]

\* loop_body on a line of the pool.
Iteration(line_text, proven) == judge_line(ReadLine[line_text], proven)

---------------------------------------------------------------------------
(* The verifier's state before a proof is given.                           *)

NoFailure == [at |-> 0, kind |-> "", line_num |-> -1, detail |-> ""]

Idle ==
    /\ proof_content = <<>>
    /\ proven_formulas = <<>>
    /\ verdict = "Running"
    /\ failure = NoFailure

\* load_and_run_tests_from_file is not running.
BatchOff ==
    /\ lines = <<>>
    /\ current_proof_content = <<>>
    /\ current_proof_name = <<>>
    /\ calls = <<>>
    /\ batch_pc = "off"

---------------------------------------------------------------------------
(* parse applied to one text.                                              *)

InitParse ==
    /\ Idle
    /\ BatchOff
    /\ formula_string \in ParseInputs
    /\ parse_result = <<>>
    /\ formula = Var("A")
    /\ axiom_result = <<>>

CallParse ==
    /\ parse_result = <<>>
    /\ parse_result' = <<parse(formula_string)>>
    /\ UNCHANGED <<batch_vars, verifier_vars, formula_string, axiom_vars>>

NextParse == CallParse

SpecParse == InitParse /\ [][NextParse]_vars

---------------------------------------------------------------------------
(* The axiom checkers applied to one term.                                 *)

InitAxiom ==
    /\ Idle
    /\ BatchOff
    /\ formula_string = <<>>
    /\ parse_result = <<>>
    /\ formula \in AxiomInputs
    /\ axiom_result = <<>>

CallAxiom1 ==
    /\ axiom_result = <<>>
    /\ axiom_result' = <<[axiom |-> 1, result |-> is_axiom1(formula)]>>
    /\ UNCHANGED <<batch_vars, verifier_vars, parse_vars, formula>>

CallAxiom2 ==
    /\ axiom_result = <<>>
    /\ axiom_result' = <<[axiom |-> 2, result |-> is_axiom2(formula)]>>
    /\ UNCHANGED <<batch_vars, verifier_vars, parse_vars, formula>>

CallAxiom3 ==
    /\ axiom_result = <<>>
    /\ axiom_result' = <<[axiom |-> 3, result |-> is_axiom3(formula)]>>
    /\ UNCHANGED <<batch_vars, verifier_vars, parse_vars, formula>>

NextAxiom == CallAxiom1 \/ CallAxiom2 \/ CallAxiom3

SpecAxiom == InitAxiom /\ [][NextAxiom]_vars

---------------------------------------------------------------------------
(* verify_proof on one proof.  The for loop (line 73) takes the lines of   *)
(* proof_content one at a time; which line comes next, and where the list  *)
(* ends, is the caller's choice, so proof_content holds the lines the loop *)
(* has taken so far, the last one being the line of the latest iteration.  *)
(* Each action is one iteration (lines 73-123), told apart by how it ends; *)
(* Finish is the code after the loop (line 125), the list being exhausted. *)

Init ==
    /\ proof_content = <<>>
    /\ proven_formulas = <<>>
    /\ verdict = "Running"
    /\ failure = NoFailure
    /\ formula_string = <<>>
    /\ parse_result = <<>>
    /\ formula = Var("A")
    /\ axiom_result = <<>>
    /\ BatchOff

InLoop == verdict = "Running" /\ Len(proof_content) < MaxLines

\* FAILED: ...; return
Fail(line_text, it) ==
    /\ proof_content' = Append(proof_content, line_text)
    /\ verdict' = "Failed"
    /\ failure' = [at |-> Len(proof_content) + 1, kind |-> it.outcome,
                   line_num |-> it.line_num, detail |-> it.detail]
    /\ UNCHANGED <<batch_vars, proven_formulas, parse_vars, axiom_vars>>

\* An exception raised in the iteration leaves verify_proof: nothing is
\* printed for the line, and neither VALID nor FAILED for the proof.
Raise(line_text, it) ==
    /\ proof_content' = Append(proof_content, line_text)
    /\ verdict' = "Raised"
    /\ failure' = [at |-> Len(proof_content) + 1, kind |-> it.outcome,
                   line_num |-> it.line_num, detail |-> it.detail]
    /\ UNCHANGED <<batch_vars, proven_formulas, parse_vars, axiom_vars>>

SkipLine ==
    /\ InLoop
    /\ \E line_text \in LinePool :
        /\ Iteration(line_text, proven_formulas).outcome = "skip"
        /\ proof_content' = Append(proof_content, line_text)
    /\ UNCHANGED <<batch_vars, proven_formulas, verdict, failure, parse_vars, axiom_vars>>

FailLineFormat ==
    /\ InLoop
    /\ \E line_text \in LinePool :
        LET it == Iteration(line_text, proven_formulas)
        IN  it.outcome = "Invalid line format" /\ Fail(line_text, it)

FailMalformedJustification ==
    /\ InLoop
    /\ \E line_text \in LinePool :
        LET it == Iteration(line_text, proven_formulas)
        IN  it.outcome = "Malformed justification" /\ Fail(line_text, it)

FailSyntax ==
    /\ InLoop
    /\ \E line_text \in LinePool :
        LET it == Iteration(line_text, proven_formulas)
        IN  it.outcome = "Syntax Error" /\ Fail(line_text, it)

FailJustification ==
    /\ InLoop
    /\ \E line_text \in LinePool :
        LET it == Iteration(line_text, proven_formulas)
        IN  it.outcome = "Invalid Justification" /\ Fail(line_text, it)

\* Lines 82, 93 and 111: int() raises ValueError, or parse RecursionError.
RaiseException ==
    /\ InLoop
    /\ \E line_text \in LinePool :
        LET it == Iteration(line_text, proven_formulas)
        IN  it.outcome \in Exceptions /\ Raise(line_text, it)

AcceptLine ==
    /\ InLoop
    /\ \E line_text \in LinePool :
        LET it == Iteration(line_text, proven_formulas)
        IN  /\ it.outcome = "accept"
            /\ proof_content' = Append(proof_content, line_text)
            /\ proven_formulas' = Record(proven_formulas, it.line_num, it.term)
    /\ UNCHANGED <<batch_vars, verdict, failure, parse_vars, axiom_vars>>

Finish ==
    /\ verdict = "Running"
    /\ verdict' = "Succeeded"
    /\ UNCHANGED <<batch_vars, proof_content, proven_formulas, failure, parse_vars, axiom_vars>>

Next ==
    \/ SkipLine
    \/ FailLineFormat
    \/ FailMalformedJustification
    \/ FailSyntax
    \/ FailJustification
    \/ RaiseException
    \/ AcceptLine
    \/ Finish

Spec == Init /\ [][Next]_vars

---------------------------------------------------------------------------
(* verify_proof as one call: the run of the for loop over a whole list,    *)
(* from the k-th line on with the mapping built so far, and what it ends   *)
(* with.                                                                   *)

\* Lines 120-123 and the returns before them: how an iteration that ended
\* as `it` leaves the run at its k-th line.
end_iteration(run, k, it) ==
    IF it.outcome = "skip" THEN run
    ELSE IF it.outcome = "accept"
    THEN [run EXCEPT !.proven_formulas =
                        Record(run.proven_formulas, it.line_num, it.term)]
    ELSE [run EXCEPT !.verdict = IF it.outcome \in Exceptions THEN "Raised"
                                 ELSE "Failed",
                     !.failure = [at |-> k, kind |-> it.outcome,
                                  line_num |-> it.line_num,
                                  detail |-> it.detail]]

\* Lines 74-123 on one line, from the state of the run before it.
loop_step(run, k, raw_line) ==
    end_iteration(run, k, Iteration(raw_line, run.proven_formulas))

\* The for loop from the k-th line on; it stops at the first failure or
\* exception.  Each
\* iteration's result is bound by the set it is drawn from, so it is
\* computed once.
RECURSIVE run_loop(_, _, _)
run_loop(content, k, run) ==
    IF k > Len(content) \/ run.verdict # "Running" THEN run
    ELSE CHOOSE end \in {run_loop(content, k + 1, after) :
                            after \in {loop_step(run, k, content[k])}} : TRUE

\* Lines 125-126: a loop that ran out of lines prints VALID.
after_loop(end) ==
    IF end.verdict = "Running" THEN [end EXCEPT !.verdict = "Succeeded"]
    ELSE end

verify_proof(content, proven) ==
    after_loop(run_loop(content, 1,
                        [verdict |-> "Running", proven_formulas |-> proven,
                         failure |-> NoFailure]))

\* Line 71: proven_formulas = {} at the start of every call, whatever an
\* earlier call left behind.
entry_mapping(previous) == <<>>

---------------------------------------------------------------------------
(* load_and_run_tests_from_file (lines 128-158).  As in verify_proof, the  *)
(* for loop (line 143) takes the lines of the file one at a time and lines *)
(* holds those taken so far; the end of the file is the caller's choice.   *)

\* str.startswith with a text argument
StartsWithText(s, prefix) ==
    Len(s) >= Len(prefix) /\ SubSeq(s, 1, Len(prefix)) = prefix

\* str.replace(old, ""): every occurrence of old, left to right, removed
RECURSIVE Remove(_, _)
Remove(s, old) ==
    IF Len(s) < Len(old) THEN s
    ELSE IF SubSeq(s, 1, Len(old)) = old
    THEN Remove(SubSeq(s, Len(old) + 1, Len(s)), old)
    ELSE <<Head(s)>> \o Remove(Tail(s), old)

\* Line 150: line.replace(DELIMITER, "").strip().replace("---", "").strip()
proof_name(line) ==
    Strip(Remove(Strip(Remove(line, DELIMITER)), <<"-", "-", "-">>))

UnnamedProof ==
    <<"U", "n", "n", "a", "m", "e", "d", " ", "P", "r", "o", "o", "f">>

InitBatch ==
    /\ Idle
    /\ formula_string = <<>>
    /\ parse_result = <<>>
    /\ formula = Var("A")
    /\ axiom_result = <<>>
    /\ lines = <<>>
    /\ current_proof_content = <<>>
    /\ current_proof_name = <<>>
    /\ calls = <<>>
    /\ batch_pc = "open"

\* Lines 130-132, 137-138: the file opens and is read.
OpenFile ==
    /\ batch_pc = "open"
    /\ batch_pc' = "loop"
    /\ current_proof_content' = <<>>
    /\ current_proof_name' = UnnamedProof
    /\ UNCHANGED <<lines, calls, verifier_vars, parse_vars, axiom_vars>>

\* Lines 133-135: the file is not there.
FileNotFound ==
    /\ batch_pc = "open"
    /\ batch_pc' = "done"
    /\ UNCHANGED <<lines, current_proof_content, current_proof_name, calls,
                   verifier_vars, parse_vars, axiom_vars>>

\* Lines 130-133: open() or readlines() raises an exception that is no
\* FileNotFoundError (the path names a directory, the file may not be read,
\* its bytes are no text in the encoding); `except FileNotFoundError` does
\* not catch it and it leaves the function before the loop, no call made.
OpenRaises ==
    /\ batch_pc = "open"
    /\ batch_pc' = "raised"
    /\ UNCHANGED <<lines, current_proof_content, current_proof_name, calls,
                   verifier_vars, parse_vars, axiom_vars>>

\* What a call of verify_proof that ended as r leaves behind it.
Ended_run(r) ==
    /\ proof_content' = current_proof_content
    /\ proven_formulas' = r.proven_formulas
    /\ verdict' = r.verdict
    /\ failure' = r.failure
    /\ calls' = Append(calls, [name |-> current_proof_name,
                               content |-> current_proof_content,
                               verdict |-> r.verdict,
                               failure |-> r.failure,
                               proven_formulas |-> r.proven_formulas])

\* The call returned.
Returned_run(r) == r.verdict # "Raised" /\ Ended_run(r)

\* The call raised: the exception leaves load_and_run_tests_from_file too,
\* which has no try around its loop, and the program ends.
Raised_run(r) ==
    /\ r.verdict = "Raised"
    /\ Ended_run(r)
    /\ batch_pc' = "raised"

\* verify_proof(current_proof_content, current_proof_name), to its return
RunProof ==
    Returned_run(verify_proof(current_proof_content,
                              entry_mapping(proven_formulas)))

\* verify_proof(current_proof_content, current_proof_name), to its exception
RunProofRaises ==
    Raised_run(verify_proof(current_proof_content,
                            entry_mapping(proven_formulas)))

InBatchLoop == batch_pc = "loop" /\ Len(lines) < MaxDoc

\* Lines 144-151, a delimiter line after gathered content.
DelimiterRunsProof ==
    /\ InBatchLoop
    /\ current_proof_content # <<>>
    /\ \E line \in DelimiterLines :
        /\ StartsWithText(line, DELIMITER)
        /\ lines' = Append(lines, line)
        /\ current_proof_name' = proof_name(line)
    /\ RunProof
    /\ current_proof_content' = <<>>
    /\ UNCHANGED <<batch_pc, parse_vars, axiom_vars>>

\* Lines 144-147, a delimiter line after gathered content whose proof
\* raises: lines 150-151 are not reached.
DelimiterRunRaises ==
    /\ InBatchLoop
    /\ current_proof_content # <<>>
    /\ \E line \in DelimiterLines :
        /\ StartsWithText(line, DELIMITER)
        /\ lines' = Append(lines, line)
    /\ RunProofRaises
    /\ UNCHANGED <<current_proof_content, current_proof_name, parse_vars,
                   axiom_vars>>

\* Lines 144-151, a delimiter line with no content gathered.
DelimiterRunsNothing ==
    /\ InBatchLoop
    /\ current_proof_content = <<>>
    /\ \E line \in DelimiterLines :
        /\ StartsWithText(line, DELIMITER)
        /\ lines' = Append(lines, line)
        /\ current_proof_name' = proof_name(line)
    /\ current_proof_content' = <<>>
    /\ UNCHANGED <<batch_pc, calls, verifier_vars, parse_vars, axiom_vars>>

\* Lines 152-154: any other line joins the current proof.
GatherLine ==
    /\ InBatchLoop
    /\ \E line \in ContentLines :
        /\ ~StartsWithText(line, DELIMITER)
        /\ lines' = Append(lines, line)
        /\ current_proof_content' = Append(current_proof_content, line)
    /\ UNCHANGED <<batch_pc, current_proof_name, calls, verifier_vars,
                   parse_vars, axiom_vars>>

\* Lines 157-158 with content gathered: the last proof of the file is run.
EndRunsProof ==
    /\ batch_pc = "loop"
    /\ current_proof_content # <<>>
    /\ RunProof
    /\ batch_pc' = "done"
    /\ UNCHANGED <<lines, current_proof_content, current_proof_name,
                   parse_vars, axiom_vars>>

\* Lines 157-158 with content gathered whose proof raises.
EndRunRaises ==
    /\ batch_pc = "loop"
    /\ current_proof_content # <<>>
    /\ RunProofRaises
    /\ UNCHANGED <<lines, current_proof_content, current_proof_name,
                   parse_vars, axiom_vars>>

\* Lines 157-158 with no content gathered.
EndRunsNothing ==
    /\ batch_pc = "loop"
    /\ current_proof_content = <<>>
    /\ batch_pc' = "done"
    /\ UNCHANGED <<lines, current_proof_content, current_proof_name, calls,
                   verifier_vars, parse_vars, axiom_vars>>

NextBatch ==
    \/ OpenFile
    \/ FileNotFound
    \/ OpenRaises
    \/ DelimiterRunsProof
    \/ DelimiterRunRaises
    \/ DelimiterRunsNothing
    \/ GatherLine
    \/ EndRunsProof
    \/ EndRunRaises
    \/ EndRunsNothing

SpecBatch == InitBatch /\ [][NextBatch]_vars

---------------------------------------------------------------------------
(* The formula grammar of the specification, stated on text:               *)
(*   Formula := Variable | '~' Formula | '(' Formula '->' Formula ')'      *)

RECURSIVE InGrammar(_)
InGrammar(s) ==
    \/ Len(s) = 1 /\ s[1] \in Upper
    \/ Len(s) >= 2 /\ s[1] = "~" /\ InGrammar(Tail(s))
    \/ /\ Len(s) >= 5
       /\ s[1] = "("
       /\ s[Len(s)] = ")"
       /\ \E k \in 3..(Len(s) - 2) :
            /\ s[k] = "-"
            /\ s[k + 1] = ">"
            /\ InGrammar(SubSeq(s, 2, k - 1))
            /\ InGrammar(SubSeq(s, k + 2, Len(s) - 1))

\* The text with its whitespace taken out.
RECURSIVE Unspaced(_)
Unspaced(s) ==
    IF s = <<>> THEN <<>>
    ELSE IF Head(s) \in Whitespace THEN Unspaced(Tail(s))
    ELSE <<Head(s)>> \o Unspaced(Tail(s))

RECURSIVE Subterms(_)
Subterms(f) ==
    {f} \cup (IF is_negation(f) THEN Subterms(f[2])
              ELSE IF is_implication(f) THEN Subterms(f[2]) \cup Subterms(f[3])
              ELSE {})

Called == parse_result # <<>>

---------------------------------------------------------------------------
(* Claims about parse, under SpecParse.                                    *)

\* C2: for well-formed texts L and R, parse of '(' L '->' R ')' returns
\* Implication(parse(L), parse(R)): the text is split at the '->', the left
\* operand is everything before it and the right operand everything after
\* the two characters '->' up to the closing parenthesis.
C2_ParseSplitsAtArrow ==
    Called =>
        \A k \in 3..(Len(formula_string) - 2) :
            LET L == SubSeq(formula_string, 2, k - 1)
                R == SubSeq(formula_string, k + 2, Len(formula_string) - 1)
            IN  (/\ formula_string[1] = "("
                 /\ formula_string[k] = "-"
                 /\ formula_string[k + 1] = ">"
                 /\ formula_string[Len(formula_string)] = ")"
                 /\ InGrammar(L)
                 /\ InGrammar(R))
                => /\ parse(L).ok
                   /\ parse(R).ok
                   /\ parse_result[1] = Returned(Imp(parse(L).term, parse(R).term))

\* C10: parse returns a term only for text that is derivable from the
\* grammar; for every other text it raises ParserError.  Whitespace is left
\* out of the comparison, so that a text which differs from a grammar text
\* by whitespace alone does not count against the claim.
C10_ParseOnlyGrammarTexts ==
    Called => (parse_result[1].ok => InGrammar(Unspaced(formula_string)))

---------------------------------------------------------------------------
(* Claims about the axiom checkers, under SpecAxiom.                       *)

Matched(n) == axiom_result # <<>> /\ axiom_result[1].axiom = n

\* C5: is_axiom1 returns true exactly on the terms Implication(A,
\* Implication(B, A)), and false (it never fails to evaluate) on every other
\* term.
C5_Axiom1Exact ==
    Matched(1) =>
        (axiom_result[1].result <=>
            \E A \in Subterms(formula), B \in Subterms(formula) :
                formula = Imp(A, Imp(B, A)))

C5_Witness ==
    /\ Matched(1)
    /\ axiom_result[1].result
    /\ is_implication(formula[2])

\* C6: is_axiom2 returns true exactly on the terms Implication(
\* Implication(A, Implication(B, C)), Implication(Implication(A, B),
\* Implication(A, C))), and false on every other term.
C6_Axiom2Exact ==
    Matched(2) =>
        (axiom_result[1].result <=>
            \E A \in Subterms(formula), B \in Subterms(formula),
               C \in Subterms(formula) :
                formula = Imp(Imp(A, Imp(B, C)), Imp(Imp(A, B), Imp(A, C))))

C6_Witness ==
    /\ Matched(2)
    /\ axiom_result[1].result
    /\ is_negation(formula[2][3][2])

\* C7: is_axiom3 returns true exactly on the terms Implication(
\* Implication(Negation(B), Negation(A)), Implication(A, B)), and false on
\* every other term, also when a side of the left operand is no negation.
C7_Axiom3Exact ==
    Matched(3) =>
        (axiom_result[1].result <=>
            \E A \in Subterms(formula), B \in Subterms(formula) :
                formula = Imp(Imp(Neg(B), Neg(A)), Imp(A, B)))

C7_Witness ==
    /\ Matched(3)
    /\ axiom_result[1].result
    /\ formula[3][2] # formula[3][3]

---------------------------------------------------------------------------
(* The line grammar of the specification, stated on the trimmed text as a  *)
(* decomposition rather than a scan:                                       *)
(*   <digits> '.' <formula text> <whitespace> <justification>              *)
(* and what makes a line valid against a mapping M.                        *)

\* The number a text of digits writes, zeros before it left aside.
NumberValue(s) ==
    LET others == {k \in 1..Len(s) : DigitValue[s[k]] # 0}
    IN  IF others = {} THEN 0
        ELSE ToInt(SubSeq(s, CHOOSE k \in others : \A q \in others : k <= q,
                          Len(s)))

\* The two numbers a Modus Ponens justification cites.
CitedNumbers(just) ==
    [i |-> NumberValue(mp_groups(just)[1]), j |-> NumberValue(mp_groups(just)[2])]

Decompositions(raw_line) ==
    LET t == Strip(raw_line)
        n == Len(t)
        dots == {a \in 1..(n - 1) : t[a + 1] = "." /\ AllDigits(SubSeq(t, 1, a))}
        gaps == {b \in 1..(n - 1) : /\ t[b + 1] \in Whitespace
                                    /\ IsJustification(SubSeq(t, b + 2, n))}
        cuts == {c \in dots \X gaps : c[1] < c[2]}
    IN  {[num |-> NumberValue(SubSeq(t, 1, c[1])),
          parsed |-> parse(SubSeq(t, c[1] + 2, c[2])),
          just |-> SubSeq(t, c[2] + 2, n)] : c \in cuts}

Skipped(raw_line) == Strip(raw_line) = <<>> \/ Strip(raw_line)[1] = "#"

LineGrammar ==
    [line_text \in LinePool \cup ContentLines |-> Decompositions(line_text)]

\* The Modus Ponens condition on lines i and j for conclusion F at line n.
ModusPonensHolds(i, j, n, M, F) ==
    /\ i < n
    /\ j < n
    /\ i \in DOMAIN M
    /\ j \in DOMAIN M
    /\ (M[j] = Imp(M[i], F) \/ M[i] = Imp(M[j], F))

ValidLine(d, M) ==
    /\ d.parsed.ok
    /\ \/ d.just = Premise
       \/ d.just = AX1 /\ is_axiom1(d.parsed.term)
       \/ d.just = AX2 /\ is_axiom2(d.parsed.term)
       \/ d.just = AX3 /\ is_axiom3(d.parsed.term)
       \/ IsMP(d.just) /\ ModusPonensHolds(CitedNumbers(d.just).i,
                                           CitedNumbers(d.just).j,
                                           d.num, M, d.parsed.term)

\* The lines from the k-th on, judged in input order against the mapping M
\* built from the lines accepted before them: the mapping at the end and the
\* position of the first line that is neither skipped nor valid (0: none).
RECURSIVE Judged(_, _, _)
Judged(proof, k, M) ==
    IF k > Len(proof) THEN [map |-> M, first_bad |-> 0]
    ELSE IF Skipped(proof[k]) THEN Judged(proof, k + 1, M)
    ELSE LET valid == {d \in LineGrammar[proof[k]] : ValidLine(d, M)}
         IN  IF valid = {} THEN [map |-> M, first_bad |-> k]
             ELSE LET d == CHOOSE d \in valid : TRUE
                  IN  Judged(proof, k + 1,
                             [n \in DOMAIN M \cup {d.num} |->
                                 IF n = d.num THEN d.parsed.term ELSE M[n]])

\* The Modus Ponens lines of the pool whose formula text parses, the two
\* numbers each cites, and the pairs of them that differ only in the order
\* of the two numbers.
ModusPonensPool ==
    {L \in LinePool : ReadLine[L].outcome = "parsed"
                      /\ IsMP(ReadLine[L].justification)}

Cited == [L \in ModusPonensPool |-> CitedNumbers(ReadLine[L].justification)]

SwappedCitations ==
    {p \in ModusPonensPool \X ModusPonensPool :
        /\ ReadLine[p[1]].line_num = ReadLine[p[2]].line_num
        /\ ReadLine[p[1]].term = ReadLine[p[2]].term
        /\ Cited[p[1]].i = Cited[p[2]].j
        /\ Cited[p[1]].j = Cited[p[2]].i
        /\ Cited[p[1]].i # Cited[p[1]].j}

LastLine == proof_content[Len(proof_content)]

\* The latest line is a Modus Ponens line whose formula text parsed.
LastIsModusPonens ==
    /\ proof_content # <<>>
    /\ LastLine \in ModusPonensPool

---------------------------------------------------------------------------
(* Claims about verify_proof, under Spec.                                  *)

\* C1: verify_proof ends in Succeeded if and only if every non-skipped line,
\* in input order, is well formed, has a formula text that parses and a
\* justification valid against the mapping built from the lines accepted
\* before it; otherwise it ends in Failed, at the first line that is not.
\* While it runs, its mapping is the one built from the lines so far.
C1_VerdictFollowsLines ==
    LET j == Judged(proof_content, 1, <<>>)
    IN  /\ verdict \in {"Running", "Succeeded", "Failed"}
        /\ verdict = "Succeeded" => j.first_bad = 0
        /\ verdict = "Running" => j.first_bad = 0
        /\ verdict = "Failed" =>
              /\ j.first_bad = Len(proof_content)
              /\ failure.at = j.first_bad
        /\ proven_formulas = j.map

\* The end-to-end scenario of the specification.
Scenario ==
    <<Line(1, <<"A">>, Premise),
      Line(2, Render(tK, Tight), AX1),
      Line(3, Render(tBA, Tight), MP(1, 2))>>

\* C3: verify_proof ends in Succeeded on the three-line proof 1. A Premise,
\* 2. (A->(B->A)) AX1, 3. (B->A) MP 1,2, with lines 1, 2 and 3 recorded: no
\* line of it is rejected.
C3_ScenarioSucceeds ==
    /\ (Len(proof_content) <= 3
        /\ proof_content = SubSeq(Scenario, 1, Len(proof_content)))
       => verdict # "Failed"
    /\ (proof_content = Scenario /\ verdict = "Succeeded")
       => DOMAIN proven_formulas = {1, 2, 3}

\* C4: a line n justified MP i,j whose formula parses to F is accepted
\* (recorded, the proof going on) if and only if i < n, j < n, both are keys
\* of the mapping, and the formula at j is the implication from the formula
\* at i to F or the other way round; otherwise it is not recorded and the
\* proof goes no further.  MP i,j and MP j,i are accepted or rejected
\* together.
C4_ModusPonensCondition ==
    [][ /\ (/\ Len(proof_content') = Len(proof_content) + 1
            /\ proof_content'[Len(proof_content')] \in ModusPonensPool)
            => LET L == proof_content'[Len(proof_content')]
                   n == ReadLine[L].line_num
                   F == ReadLine[L].term
                   m == Cited[L]
                   holds == ModusPonensHolds(m.i, m.j, n, proven_formulas, F)
               IN  /\ holds =>
                        /\ verdict' = "Running"
                        /\ n \in DOMAIN proven_formulas'
                        /\ proven_formulas'[n] = F
                   /\ ~holds =>
                        /\ verdict' # "Running"
                        /\ proven_formulas' = proven_formulas
        /\ verdict = "Running" =>
            \A p \in SwappedCitations :
                Iteration(p[1], proven_formulas).outcome = "accept"
                <=> Iteration(p[2], proven_formulas).outcome = "accept"
      ]_vars

\* C8: a line n justified MP i,j with i >= n or j >= n fails the proof at
\* line n with the forward-reference reason whatever the mapping holds; the
\* missing-line reason is given only when i < n, j < n and one of them is no
\* key; the non-consequence reason only when both are keys.  (The line is
\* one whose formula text parsed: the justification is looked at after it.)
C8_ModusPonensReasons ==
    LastIsModusPonens =>
        LET n == ReadLine[LastLine].line_num
            m == Cited[LastLine]
            failed == /\ verdict = "Failed"
                      /\ failure.kind = "Invalid Justification"
                      /\ failure.line_num = n
                      /\ failure.at = Len(proof_content)
        IN  /\ (m.i >= n \/ m.j >= n) =>
                failed /\ failure.detail = "MP refers to future lines"
            /\ (verdict = "Failed"
                /\ failure.detail = "MP refers to non-existent lines") =>
                /\ m.i < n
                /\ m.j < n
                /\ (m.i \notin DOMAIN proven_formulas
                    \/ m.j \notin DOMAIN proven_formulas)
            /\ (verdict = "Failed"
                /\ failure.detail = "Conclusion does not follow by Modus Ponens") =>
                /\ m.i < n
                /\ m.j < n
                /\ m.i \in DOMAIN proven_formulas
                /\ m.j \in DOMAIN proven_formulas

\* C9: the mapping is append-only: once line number k is recorded with
\* formula F, k stays a key mapped to F in every later state of the run.
C9_MappingAppendOnly ==
    [][\A k \in DOMAIN proven_formulas :
          /\ k \in DOMAIN proven_formulas'
          /\ proven_formulas'[k] = proven_formulas[k]]_vars

\* The for loop of verify_proof (lines 73-126) is sequential code over a
\* finite list: an iteration that can run does run, and after the last line
\* the function returns.
SpecFair == Spec /\ WF_vars(Next)

Terminal == verdict \in {"Failed", "Succeeded"}

\* C11: Failed and Succeeded are absorbing.  From a terminal state nothing
\* of the run changes (no later line is read, parsed or recorded; mapping
\* and failure report stay as they are); the step that finds a line invalid
\* leaves the mapping as it was, so the failing line is not recorded, and
\* reports that very line; and every run reaches a terminal state, Failed
\* exactly when a failure was reported.
C11_TerminalAbsorbing ==
    /\ [][/\ Terminal => UNCHANGED verifier_vars
          /\ (verdict = "Running" /\ verdict' = "Failed") =>
                /\ proven_formulas' = proven_formulas
                /\ Len(proof_content') = Len(proof_content) + 1
                /\ failure'.at = Len(proof_content')
          /\ (verdict = "Running" /\ verdict' = "Succeeded") =>
                UNCHANGED <<proof_content, proven_formulas, failure>>]_vars
    /\ [](Terminal => ((verdict = "Failed") <=> (failure # NoFailure)))
    /\ <>[]Terminal

\* The text of a line after its leading '<digits>.', when it has one.
HasNumber(raw_line) ==
    LET t == Strip(raw_line)
        k == DigitRun(t)
    IN  k >= 1 /\ k < Len(t) /\ t[k + 1] = "."

NumberOf(raw_line) ==
    LET t == Strip(raw_line) IN NumberValue(SubSeq(t, 1, DigitRun(t)))

AfterNumber(raw_line) ==
    LET t == Strip(raw_line) IN SubSeq(t, DigitRun(t) + 2, Len(t))

\* t ends with whitespace followed by Premise, AX1, AX2, AX3 or MP i,j.
EndsJustified(t) ==
    \E p \in 1..Len(t) :
        /\ t[p] \in Whitespace
        /\ IsJustification(SubSeq(t, p + 1, Len(t)))

\* The numbered, non-skipped lines of the pool whose text after the number
\* does not end with a justification.
UnjustifiedPool ==
    {L \in LinePool : ~Skipped(L) /\ HasNumber(L) /\ ~EndsJustified(AfterNumber(L))}

\* C13: taking a numbered, non-skipped line whose text after the number does
\* not end with whitespace and a justification ends the proof in Failed at
\* that line with a format-error reason, which names the line's number when
\* there is any text after it; the formula is never parsed (the reason is
\* not the parser's, even when the text would not parse) and the mapping is
\* left as it was.
C13_MalformedJustificationFails ==
    [][(proof_content' # proof_content
        /\ proof_content'[Len(proof_content')] \in UnjustifiedPool) =>
          LET L == proof_content'[Len(proof_content')]
          IN  /\ verdict' = "Failed"
              /\ failure'.at = Len(proof_content')
              /\ failure'.kind \in {"Malformed justification", "Invalid line format"}
              /\ AfterNumber(L) # <<>> =>
                    /\ failure'.kind = "Malformed justification"
                    /\ failure'.line_num = NumberOf(L)
              /\ failure'.detail = ""
              /\ proven_formulas' = proven_formulas]_vars

\* The non-skipped lines of the pool whose leading number is not a positive
\* integer: no '<digits>.' at the start, or the number 0.
NotPositivePool ==
    {L \in LinePool : ~Skipped(L) /\ (~HasNumber(L) \/ NumberOf(L) = 0)}

\* C14: taking a non-skipped line whose leading number is not a positive
\* integer (the number 0, or no leading digits followed by '.') ends the
\* proof in Failed with a format-error reason, and the line is not recorded.
C14_NonPositiveNumberFails ==
    [][(proof_content' # proof_content
        /\ proof_content'[Len(proof_content')] \in NotPositivePool) =>
          /\ verdict' = "Failed"
          /\ failure'.kind \in {"Invalid line format", "Malformed justification"}
          /\ proven_formulas' = proven_formulas]_vars

\* The lines of the pool made of a number, a formula text and a
\* justification whose formula text parse rejects.
UnparsedPool ==
    {L \in LinePool : /\ ~Skipped(L)
                      /\ LineGrammar[L] # {}
                      /\ \A d \in LineGrammar[L] : ~d.parsed.ok}

\* C15: taking a line whose formula text parse rejects, whatever its
\* justification, ends the proof in Failed at that line and its number, with
\* the parser's error as the reason; the line is not recorded and the
\* mapping is left as it was.
C15_ParserErrorFails ==
    [][(proof_content' # proof_content
        /\ proof_content'[Len(proof_content')] \in UnparsedPool) =>
          LET L == proof_content'[Len(proof_content')]
          IN  /\ verdict' = "Failed"
              /\ failure'.at = Len(proof_content')
              /\ failure'.kind = "Syntax Error"
              /\ \E d \in LineGrammar[L] :
                    /\ failure'.line_num = d.num
                    /\ failure'.detail = d.parsed.error
              /\ failure'.detail # ""
              /\ proven_formulas' = proven_formulas]_vars

C15_Witness ==
    /\ verdict = "Failed"
    /\ LastLine = Line(2, Render(tAB, Tight), Premise)
    /\ LastLine \in UnparsedPool
    /\ failure.kind = "Syntax Error"
    /\ failure.line_num = 2
    /\ DOMAIN proven_formulas = {1, 3}

---------------------------------------------------------------------------
(* Claims about load_and_run_tests_from_file, under SpecBatch.             *)

\* Where the proofs of a file start: 0 for the lines before the first
\* delimiter, and the position of every delimiter line.
ProofStarts(doc) ==
    {0} \cup {p \in 1..Len(doc) : StartsWithText(doc[p], DELIMITER)}

\* The position that ends the proof started at p: the next delimiter, or
\* one past the end of the file.
ProofEnd(doc, p) ==
    LET later == {q \in ProofStarts(doc) : q > p}
    IN  IF later = {} THEN Len(doc) + 1
        ELSE CHOOSE q \in later : \A q2 \in later : q <= q2

ProofLines(doc, p) == SubSeq(doc, p + 1, ProofEnd(doc, p) - 1)

\* The proofs the runner is through with: those closed by a later delimiter
\* and, once the file has ended, the last one.
ProofsClosed(doc, ended) ==
    {p \in ProofStarts(doc) : ended \/ ProofEnd(doc, p) <= Len(doc)}

\* The k-th smallest member of a set of positions.
Nth(S, k) == CHOOSE p \in S : Cardinality({q \in S : q <= p}) = k

\* C12: proofs run by the batch runner are isolated.  Every call of
\* verify_proof ends exactly as verifying the same lines alone, from an
\* empty mapping, ends (same verdict, same failure, same final mapping), so
\* no line of another proof is ever cited; and every proof with lines that
\* the runner is through with has been run, in order, whether or not the
\* proofs before it failed; no proof stops the runner by ending in an
\* exception.
C12_ProofsIsolated ==
    LET started == {p \in ProofsClosed(lines, batch_pc \in {"done", "raised"}) :
                       ProofLines(lines, p) # <<>>}
    IN  /\ \A k \in 1..Len(calls) : calls[k].verdict # "Raised"
        /\ Len(calls) = Cardinality(started)
        /\ \A k \in 1..Len(calls) :
              LET alone == verify_proof(calls[k].content, <<>>)
              IN  /\ calls[k].content = ProofLines(lines, Nth(started, k))
                  /\ calls[k].verdict = alone.verdict
                  /\ calls[k].failure = alone.failure
                  /\ calls[k].proven_formulas = alone.proven_formulas

---------------------------------------------------------------------------
(* Further claims about verify_proof, under Spec.                          *)

NotSkipped(raw_line) == ~Skipped(raw_line)

\* C16: lines whose trimmed text is empty or begins with '#' are skipped.
\* Taking one leaves the verdict, the failure report and the mapping as they
\* were; and a run ends as the run over the same lines with every such line
\* taken out ends: same verdict (or same exception), same failing line
\* number and reason, same mapping.  So putting such lines in or taking them out, anywhere and in
\* any number, changes none of these.
C16_SkippedLinesInert ==
    /\ [][(proof_content' # proof_content
           /\ Skipped(proof_content'[Len(proof_content')])) =>
             UNCHANGED <<proven_formulas, verdict, failure>>]_vars
    /\ [](LET kept == SelectSeq(proof_content, NotSkipped)
              without == verify_proof(kept, <<>>)
          IN  /\ proven_formulas = without.proven_formulas
              /\ verdict = "Failed" <=> without.verdict = "Failed"
              /\ verdict = "Raised" <=> without.verdict = "Raised"
              /\ failure.kind = without.failure.kind
              /\ failure.line_num = without.failure.line_num
              /\ failure.detail = without.failure.detail
              /\ verdict \in {"Failed", "Raised"} =>
                    without.failure.at = Len(kept))

C16_Witness ==
    /\ verdict = "Failed"
    /\ Len(proof_content) = 4
    /\ Skipped(proof_content[1])
    /\ proof_content[1] = Comment
    /\ proof_content[3] = Blank
    /\ DOMAIN proven_formulas = {1}
    /\ failure.line_num = 3

---------------------------------------------------------------------------
(* Further claims about load_and_run_tests_from_file, under SpecBatch.     *)

\* The names the delimiter lines of the pool give their proofs.
NameGiven(line) == IF line = DelimiterP THEN <<"P">> ELSE <<"Q">>

\* The proofs a file introduces with delimiter lines, in document order.
Introduced(doc) == ProofStarts(doc) \ {0}

\* The calls made for the proofs that delimiter lines introduce: all of
\* them, but for the call made for lines that come before the first
\* delimiter.
CallsForIntroduced ==
    IF ProofLines(lines, 0) # <<>> /\ calls # <<>> THEN Tail(calls) ELSE calls

\* C17: once the file has ended, verify_proof has been called exactly once
\* for each proof introduced by a delimiter line, in document order, with
\* exactly the lines between that delimiter and the next (or the end of the
\* file) and under that proof's name, a proof with no lines included.
C17_OneCallPerProof ==
    batch_pc = "done" /\ current_proof_name # <<>> =>
        /\ Len(CallsForIntroduced) = Cardinality(Introduced(lines))
        /\ \A k \in 1..Len(CallsForIntroduced) :
              LET p == Nth(Introduced(lines), k)
              IN  /\ CallsForIntroduced[k].name = NameGiven(lines[p])
                  /\ CallsForIntroduced[k].content = ProofLines(lines, p)

---------------------------------------------------------------------------
(* Claims about the citations of a run, under Spec.                        *)

\* The positions in the input of the lines accepted so far: every line
\* taken that was not skipped, but for the one the run failed at or raised
\* on.
AcceptedAt ==
    {p \in 1..Len(proof_content) :
        /\ ~Skipped(proof_content[p])
        /\ ~(verdict \in {"Failed", "Raised"} /\ p = failure.at)}

\* C18: every key of the mapping is the number of a line accepted earlier in
\* input order, and every accepted line numbered n that is justified MP i,j
\* cites only numbers smaller than n that lines accepted before it in the
\* input were recorded under.  So a line depends only on lines with smaller
\* numbers that come earlier in the input: the citation relation is well
\* founded.
C18_CitationsWellFounded ==
    /\ DOMAIN proven_formulas = {NumberOf(proof_content[p]) : p \in AcceptedAt}
    /\ \A p \in AcceptedAt :
          proof_content[p] \in ModusPonensPool =>
              \A m \in {Cited[proof_content[p]].i, Cited[proof_content[p]].j} :
                  /\ m < NumberOf(proof_content[p])
                  /\ \E q \in AcceptedAt :
                        q < p /\ NumberOf(proof_content[q]) = m

C18_Witness ==
    /\ Len(proof_content) = 4
    /\ 3 \in AcceptedAt
    /\ proof_content[3] = Line(3, <<"B">>, MP(2, 1))
    /\ proof_content[4] = Line(2, <<"B">>, MP(3, 1))
    /\ verdict = "Failed"
    /\ DOMAIN proven_formulas = {1, 2, 3}

---------------------------------------------------------------------------
(* Further claims about parse, under SpecParse.                            *)

\* The term the grammar assigns to a text derivable from it.
RECURSIVE GrammarTerm(_)
GrammarTerm(s) ==
    IF Len(s) = 1 THEN Var(s[1])
    ELSE IF s[1] = "~" THEN Neg(GrammarTerm(Tail(s)))
    ELSE LET k == CHOOSE k \in 3..(Len(s) - 2) :
                    /\ s[k] = "-"
                    /\ s[k + 1] = ">"
                    /\ InGrammar(SubSeq(s, 2, k - 1))
                    /\ InGrammar(SubSeq(s, k + 2, Len(s) - 1))
         IN  Imp(GrammarTerm(SubSeq(s, 2, k - 1)),
                 GrammarTerm(SubSeq(s, k + 2, Len(s) - 1)))

\* C19: parse ignores whitespace around operands.  For well-formed texts L
\* and R, parse of '(' L ' -> ' R ')', one space on each side of the arrow,
\* returns the term the grammar assigns to '(' L '->' R ')', which is
\* Implication of the terms of L and R; and parse of a text equals parse of
\* the text with its leading and trailing whitespace taken off.
C19_ParseIgnoresSpaces ==
    Called =>
        /\ parse_result[1] = parse(Strip(formula_string))
        /\ \A k \in 3..(Len(formula_string) - 4) :
              LET L == SubSeq(formula_string, 2, k - 1)
                  R == SubSeq(formula_string, k + 4, Len(formula_string) - 1)
              IN  (/\ formula_string[1] = "("
                   /\ SubSeq(formula_string, k, k + 3) = Spaced
                   /\ formula_string[Len(formula_string)] = ")"
                   /\ InGrammar(L)
                   /\ InGrammar(R))
                  => /\ parse_result[1] =
                          Returned(GrammarTerm(<<"(">> \o L \o Tight \o R \o <<")">>))
                     /\ parse_result[1] =
                          Returned(Imp(GrammarTerm(L), GrammarTerm(R)))

===========================================================================
